---- MODULE Spec2Model ----
(***************************************************************************)
(* Model of Scripts/parakeet_transcribe.py: the VAD interval consolidator  *)
(* (merge_vad_segments), the segment builder (build_segments_from_words,   *)
(* finalize_segment) and the chunk loop of transcribe_with_vad with main.  *)
(*                                                                         *)
(* Numbers.  The program computes in binary floating point; the model     *)
(* computes in integers, in units chosen so that it says what the floats   *)
(* do:                                                                     *)
(*  - sample positions are integers;                                       *)
(*  - a duration in seconds given to merge_vad_segments is a count of      *)
(*    1/SecondTicks s.  SecondTicks is a power of two, so the float of     *)
(*    such a value and its product with an integer sample rate are exact   *)
(*    and int(seconds * sr) is the truncation computed here;               *)
(*  - a time the engine reports, and a chunk offset start_sample / sr,     *)
(*    is a count of sample periods (1/SR s);                               *)
(*  - a word time after round(x, 3) is a count of milliseconds, a          *)
(*    confidence after round(x, 4) a count of 0.0001, a raw confidence a   *)
(*    count of 0.0001 / ConfStep;                                          *)
(*  - a text is the sequence of the code points of its characters.         *)
(* A difference of two word times is compared with its threshold as the   *)
(* doubles compare: the rounding errors of the three doubles are computed  *)
(* in integers (Exceeds).  For round, where the exact value settles what   *)
(* the floats give, the model gives that; on a decimal tie of values that  *)
(* have no exact float the outcome depends on the rounding error of the    *)
(* sum and the model allows both outcomes.                                 *)
(***************************************************************************)
EXTENDS Integers, Sequences, FiniteSets

VARIABLES
    pc,              \* position of the run
    speech_segments, \* VAD intervals (input of merge_vad_segments)
    merge_gap,       \* seconds, in 1/SecondTicks s
    max_chunk,       \* seconds, in 1/SecondTicks s
    split_gap,       \* seconds, in 1/SecondTicks s
    chunks,          \* result of merge_vad_segments
    rechunks,        \* result of merge_vad_segments applied to chunks
    i,               \* 1-based index of the chunk being processed
    files,           \* indices k whose _chunk_k.wav exists in output_dir
    gpu_dirty,       \* device memory retained by the engine, not yet emptied
    unlink_errors,   \* indices whose unlink raised (exception suppressed)
    engine_out,      \* what model.transcribe returned, chunk by chunk
    all_words,       \* aggregate word list
    gap_threshold,   \* argument of build_segments_from_words
    max_duration,    \* argument of build_segments_from_words
    segments,        \* result of build_segments_from_words
    output           \* the JSON document written by main, or NoOutput

vars == <<pc, speech_segments, merge_gap, max_chunk, split_gap, chunks,
          rechunks, i, files, gpu_dirty, unlink_errors, engine_out,
          all_words, gap_threshold, max_duration, segments, output>>

-----------------------------------------------------------------------------
(* Bounds of the model *)

MaxSample == 6
MaxIntervals == 3
MaxGapParam == 5

-----------------------------------------------------------------------------
(* Program constants *)

\* line 244
SR == 16000
SamplesPerMs == SR \div 1000

\* seconds arguments are counted in 1/SecondTicks s (2^-14 s)
SecondTicks == 16384

\* 1.0 as a confidence, in units of 0.0001 (lines 161, 298)
ConfOne == 10000

\* raw confidences are counted in units of 0.0001 / ConfStep
ConfStep == 10

\* t sample periods are t/SR s, c raw confidence units are
\* c/(ConfOne * ConfStep): the float of such a value is the value itself
\* exactly when t, c is a multiple of, respectively,
ExactSamples == SR \div 128
ExactConf == (ConfOne * ConfStep) \div 32

-----------------------------------------------------------------------------
(* Numeric conversions *)

\* the whole part of seconds * sr for seconds >= 0, computed from the whole
\* seconds and the fraction separately
WholeSamples(seconds, sr) ==
    (seconds \div SecondTicks) * sr + ((seconds % SecondTicks) * sr) \div SecondTicks

\* lines 85-87: int(seconds * sr)
ToSamples(seconds, sr) ==
    IF seconds >= 0 THEN WholeSamples(seconds, sr) ELSE -WholeSamples(-seconds, sr)

\* up resolves the ties of round that the floats decide: a function from
\* <<a, step>> to whether the float of a + b lies above the tie
TieUp(up, a, step) == <<a, step>> \in DOMAIN up /\ up[<<a, step>>]

\* the decimal tie of a + b is decided by the rounding error of the floats
FloatTie(a, b, step, exact) ==
    /\ 2 * ((a + b) % step) = step
    /\ ~(a % exact = 0 /\ b % exact = 0)

\* round(a + b, ndigits), counted in units of step: the nearest multiple of
\* step; on a tie the even one when a, b and so a + b are exact floats,
\* else the one on the side where the float of a + b lies
RoundTo(a, b, step, exact, up) ==
    LET q == (a + b) \div step
        r == (a + b) % step
    IN  IF 2 * r < step THEN q
        ELSE IF 2 * r > step THEN q + 1
        ELSE IF a % exact = 0 /\ b % exact = 0
             THEN (IF q % 2 = 0 THEN q ELSE q + 1)
             ELSE IF TieUp(up, a, step) THEN q + 1 ELSE q

-----------------------------------------------------------------------------
(* merge_vad_segments *)

Interval(s, e) == [start |-> s, end |-> e]

\* line 96: merge when the gap is below merge_gap_samples
ShouldMerge(gap, merge_gap_samples) == gap < merge_gap_samples

ExtendChunkKeepEnd(current_chunk, seg) == current_chunk

\* line 98
ExtendChunk(current_chunk, seg) == [current_chunk EXCEPT !.end = seg.end]

MergeFinishDrop(merged, current_chunk) == merged

\* line 104
MergeFinish(merged, current_chunk) == Append(merged, current_chunk)

RECURSIVE MergeLoop(_, _, _, _, _)
MergeLoop(segs, k, current_chunk, merged, merge_gap_samples) ==
    IF k > Len(segs) THEN MergeFinish(merged, current_chunk)
    ELSE LET seg == segs[k]
             gap == seg.start - current_chunk.end
         IN  IF ShouldMerge(gap, merge_gap_samples)
             THEN MergeLoop(segs, k + 1, ExtendChunk(current_chunk, seg),
                            merged, merge_gap_samples)
             ELSE MergeLoop(segs, k + 1, Interval(seg.start, seg.end),
                            Append(merged, current_chunk), merge_gap_samples)

\* first pass, lines 89-104 (segs non-empty)
MergePass(segs, merge_gap_samples) ==
    MergeLoop(segs, 2, Interval(segs[1].start, segs[1].end), <<>>,
              merge_gap_samples)

\* lines 118-121
SegmentsInChunk(segs, chunk) ==
    SelectSeq(segs, LAMBDA seg : seg.start >= chunk.start /\ seg.end <= chunk.end)

SplitHereStrictGap(potential_duration, gap, max_chunk_samples, split_gap_samples) ==
    potential_duration > max_chunk_samples /\ gap > split_gap_samples

\* line 138
SplitHere(potential_duration, gap, max_chunk_samples, split_gap_samples) ==
    potential_duration > max_chunk_samples /\ gap >= split_gap_samples

RECURSIVE SplitLoop(_, _, _, _, _, _, _)
SplitLoop(sic, k, sub_chunk_start, sub_chunk_end, final_chunks, max_chunk_samples, split_gap_samples) ==
    IF k > Len(sic)
    THEN Append(final_chunks, Interval(sub_chunk_start, sub_chunk_end))
    ELSE LET seg == sic[k]
             gap == seg.start - sub_chunk_end
             potential_duration == seg.end - sub_chunk_start
         IN  IF SplitHere(potential_duration, gap, max_chunk_samples,
                          split_gap_samples)
             THEN SplitLoop(sic, k + 1, seg.start, seg.end,
                            Append(final_chunks,
                                   Interval(sub_chunk_start, sub_chunk_end)),
                            max_chunk_samples, split_gap_samples)
             ELSE SplitLoop(sic, k + 1, sub_chunk_start, seg.end, final_chunks,
                            max_chunk_samples, split_gap_samples)

\* one iteration of the loop of lines 110-147: final_chunks extended by what
\* the merged chunk contributes
SplitChunk(segs, chunk, final_chunks, max_chunk_samples, split_gap_samples) ==
    IF chunk.end - chunk.start <= max_chunk_samples
    THEN Append(final_chunks, chunk)
    ELSE LET segments_in_chunk == SegmentsInChunk(segs, chunk)
         IN  IF Len(segments_in_chunk) <= 1
             THEN Append(final_chunks, chunk)
             ELSE SplitLoop(segments_in_chunk, 2, segments_in_chunk[1].start,
                            segments_in_chunk[1].end, final_chunks,
                            max_chunk_samples, split_gap_samples)

RECURSIVE SplitPass(_, _, _, _, _, _)
SplitPass(segs, merged, k, final_chunks, max_chunk_samples, split_gap_samples) ==
    IF k > Len(merged) THEN final_chunks
    ELSE SplitPass(segs, merged, k + 1,
                   SplitChunk(segs, merged[k], final_chunks, max_chunk_samples,
                              split_gap_samples),
                   max_chunk_samples, split_gap_samples)

\* lines 68-149
merge_vad_segments(segs, sr, mg, mc, sg) ==
    IF segs = <<>> THEN <<>>
    ELSE SplitPass(segs, MergePass(segs, ToSamples(mg, sr)), 1, <<>>,
                   ToSamples(mc, sr), ToSamples(sg, sr))

-----------------------------------------------------------------------------
(* Inputs of the consolidator *)

\* ascending, non-overlapping intervals with 0 <= start < end
RECURSIVE IntervalLists(_, _, _)
IntervalLists(from, maxPoint, n) ==
    {<<>>} \cup
    (IF n = 0 THEN {}
     ELSE UNION { UNION { { <<Interval(s, e)>> \o rest :
                              rest \in IntervalLists(e, maxPoint, n - 1) } :
                          e \in (s + 1)..maxPoint } :
                  s \in from..maxPoint })

GapParams == (-1)..MaxGapParam
ChunkParams == (-1)..(MaxSample + 1)

-----------------------------------------------------------------------------
(* finalize_segment and build_segments_from_words *)

\* the code points c with chr(c).isspace(), which str.strip() removes
Whitespace ==
    (9..13) \cup (28..32) \cup {133, 160, 5760} \cup (8192..8202)
    \cup {8232, 8233, 8239, 8287, 12288}

IsSpace(c) == c \in Whitespace

RECURSIVE LStrip(_)
LStrip(t) == IF t # <<>> /\ IsSpace(Head(t)) THEN LStrip(Tail(t)) ELSE t

RECURSIVE RStrip(_)
RStrip(t) ==
    IF t # <<>> /\ IsSpace(t[Len(t)]) THEN RStrip(SubSeq(t, 1, Len(t) - 1))
    ELSE t

\* str.strip()
Strip(t) == RStrip(LStrip(t))

\* " ".join(parts)
RECURSIVE Join(_)
Join(parts) ==
    IF parts = <<>> THEN <<>>
    ELSE IF Len(parts) = 1 THEN parts[1]
    ELSE parts[1] \o <<32>> \o Join(Tail(parts))

\* dict.get(key, default)
Get(w, key, default) == IF key \in DOMAIN w THEN w[key] ELSE default

\* lines 157-162
WhisperXWord(w) ==
    [word |-> Strip(w.text), start |-> w.start, end |-> w.end,
     score |-> Get(w, "confidence", ConfOne)]

\* line 164: empty tokens are skipped
KeepWord(w) == Strip(w.text) # <<>>

\* lines 152-171 (words non-empty)
finalize_segment(words) ==
    [start |-> words[1].start,
     end |-> words[Len(words)].end,
     text |-> Join([k \in 1..Len(words) |-> Strip(words[k].text)]),
     words |-> LET kept == SelectSeq(words, KeepWord)
               IN  [k \in 1..Len(kept) |-> WhisperXWord(kept[k])]]

\* Word times and thresholds are decimal values k/1000 s, k in milliseconds;
\* the program holds, for each, the nearest double, m / 2^Scale(k) with
\* 2^(MantissaBits - 1) <= m < 2^MantissaBits.
MsPerSecond == 1000
MantissaBits == 53

\* least n >= 1 with k * 2^n >= MsPerSecond, for 0 < k < MsPerSecond
RECURSIVE BinadesBelowOne(_)
BinadesBelowOne(k) ==
    IF 2 * k >= MsPerSecond THEN 1 ELSE 1 + BinadesBelowOne(2 * k)

\* greatest n >= 0 with unit * 2^n <= k, for k >= unit
RECURSIVE BinadesAbove(_, _)
BinadesAbove(k, unit) ==
    IF k < 2 * unit THEN 0 ELSE 1 + BinadesAbove(k, 2 * unit)

\* the scale of the double of k/1000, k > 0
Scale(k) ==
    IF k >= MsPerSecond THEN MantissaBits - 1 - BinadesAbove(k, MsPerSecond)
    ELSE MantissaBits - 1 + BinadesBelowOne(k)

RECURSIVE Pow2(_)
Pow2(n) == IF n = 0 THEN 1 ELSE 2 * Pow2(n - 1)

\* 2^n % m, by repeated squaring
RECURSIVE Pow2Mod(_, _)
Pow2Mod(n, m) ==
    IF n = 0 THEN 1 % m
    ELSE LET h == Pow2Mod(n \div 2, m)
         IN  IF n % 2 = 0 THEN (h * h) % m ELSE (2 * h * h) % m

\* (x * 2^n) % m
DoubleMod(x, n, m) == ((x % m) * Pow2Mod(n, m)) % m

\* the double of k/1000 minus k/1000, in units of 1 / (1000 * 2^Scale(k)):
\* k * 2^Scale(k) / 1000 rounded to the nearest integer m (it is never
\* halfway between two)
FloatError(k) ==
    LET r == DoubleMod(k, Scale(k), MsPerSecond)
    IN  IF 2 * r < MsPerSecond THEN -r ELSE MsPerSecond - r

\* the mantissa m of the double of k/1000 is odd
MantissaOdd(k) ==
    DoubleMod(k, Scale(k), 2 * MsPerSecond) + FloatError(k) = MsPerSecond

\* lines 198-199: a - b of two word times.  The computed difference is not
\* a whole number of milliseconds; it is kept as its two operands.
FloatSub(a, b) == [minuend |-> a, subtrahend |-> b]

\* d > limit for a computed difference d of doubles whose decimal values
\* differ by exactly limit, 0 < subtrahend, 0 < limit.  excess is the exact
\* difference of the two doubles minus the double of limit, in units of
\* 1 / (1000 * 2^s), s the larger of the scales of subtrahend and limit.
\* When the subtrahend has the finer scale the subtraction rounds the exact
\* difference to the scale of limit, to the even mantissa on a tie.
ExceedsAtEquality(d, limit) ==
    LET sa == Scale(d.minuend)
        sb == Scale(d.subtrahend)
        sl == Scale(limit)
        s == IF sb > sl THEN sb ELSE sl
        excess == FloatError(d.minuend) * Pow2(s - sa)
                  - FloatError(d.subtrahend) * Pow2(s - sb)
                  - FloatError(limit) * Pow2(s - sl)
        half == Pow2(sb - sl - 1) * MsPerSecond
    IN  IF sb <= sl THEN excess > 0
        ELSE excess > half \/ (excess = half /\ MantissaOdd(limit))

\* line 205: d > limit, limit >= 0 in milliseconds.  Decimal values that
\* differ from limit by a millisecond or more compare as they are; 0 and
\* x - 0 are computed exactly.
Exceeds(d, limit) ==
    IF d.minuend - d.subtrahend # limit THEN d.minuend - d.subtrahend > limit
    ELSE IF limit = 0 \/ d.subtrahend = 0 THEN FALSE
    ELSE ExceedsAtEquality(d, limit)

\* line 205
should_break(gap, segment_duration, gap_thr, max_dur) ==
    Exceeds(gap, gap_thr) \/ Exceeds(segment_duration, max_dur)

ExtendSegmentDrop(current_segment_words, curr_word) == current_segment_words

\* line 213
ExtendSegment(current_segment_words, curr_word) ==
    Append(current_segment_words, curr_word)

RECURSIVE BuildLoop(_, _, _, _, _, _, _)
BuildLoop(words, k, current_segment_words, segment_start_time, segs, gap_thr, max_dur) ==
    IF k > Len(words)
    THEN IF current_segment_words # <<>>
         THEN Append(segs, finalize_segment(current_segment_words))
         ELSE segs
    ELSE LET prev_word == words[k - 1]
             curr_word == words[k]
             gap == FloatSub(curr_word.start, prev_word.end)
             segment_duration == FloatSub(prev_word.end, segment_start_time)
         IN  IF should_break(gap, segment_duration, gap_thr, max_dur)
             THEN BuildLoop(words, k + 1, <<curr_word>>, curr_word.start,
                            Append(segs, finalize_segment(current_segment_words)),
                            gap_thr, max_dur)
             ELSE BuildLoop(words, k + 1,
                            ExtendSegment(current_segment_words, curr_word),
                            segment_start_time, segs, gap_thr, max_dur)

\* lines 174-219; times and thresholds in milliseconds
build_segments_from_words(words, gap_thr, max_dur) ==
    IF words = <<>> THEN <<>>
    ELSE BuildLoop(words, 2, <<words[1]>>, words[1].start, <<>>, gap_thr, max_dur)

\* lines 16-17, in milliseconds
GAP_THRESHOLD == 400
MAX_SEGMENT_DURATION == 10000

-----------------------------------------------------------------------------
(* State shared by the specifications *)

NoOutput == [written |-> FALSE]

\* values of the variables a specification does not use
RunIdle ==
    /\ i = 0
    /\ files = {}
    /\ gpu_dirty = FALSE
    /\ unlink_errors = {}
    /\ engine_out = <<>>
    /\ output = NoOutput

-----------------------------------------------------------------------------
(* SpecMerge: merge_vad_segments applied to drawn inputs, then to its own  *)
(* output with the same parameters                                         *)

InitMerge ==
    /\ pc = "consolidate"
    /\ speech_segments \in IntervalLists(0, MaxSample, MaxIntervals)
    /\ merge_gap \in GapParams
    /\ max_chunk \in ChunkParams
    /\ split_gap \in GapParams
    /\ chunks = <<>>
    /\ rechunks = <<>>
    /\ all_words = <<>>
    /\ gap_threshold = 0
    /\ max_duration = 0
    /\ segments = <<>>
    /\ RunIdle

Consolidate ==
    /\ pc = "consolidate"
    /\ chunks' = merge_vad_segments(speech_segments, SR, merge_gap, max_chunk, split_gap)
    /\ pc' = "reconsolidate"
    /\ UNCHANGED <<speech_segments, merge_gap, max_chunk, split_gap, rechunks, i,
                   files, gpu_dirty, unlink_errors, engine_out, all_words,
                   gap_threshold, max_duration, segments, output>>

Reconsolidate ==
    /\ pc = "reconsolidate"
    /\ rechunks' = merge_vad_segments(chunks, SR, merge_gap, max_chunk, split_gap)
    /\ pc' = "consolidated"
    /\ UNCHANGED <<speech_segments, merge_gap, max_chunk, split_gap, chunks, i,
                   files, gpu_dirty, unlink_errors, engine_out, all_words,
                   gap_threshold, max_duration, segments, output>>

NextMerge == Consolidate \/ Reconsolidate

SpecMerge == InitMerge /\ [][NextMerge]_vars

-----------------------------------------------------------------------------
(* Properties of the consolidator (SpecMerge) *)

Inside(seg, chunk) == chunk.start <= seg.start /\ seg.end <= chunk.end

Consolidated == pc \in {"reconsolidate", "consolidated"}

\* the chunks of the first pass
FirstPass == MergePass(speech_segments, ToSamples(merge_gap, SR))

\* indices k such that intervals k and k+1 lie in one chunk of list
Together(list, k) ==
    \E c \in 1..Len(list) :
        Inside(speech_segments[k], list[c]) /\ Inside(speech_segments[k + 1], list[c])

GapAfter(k) == speech_segments[k + 1].start - speech_segments[k].end

\* boundaries the split pass placed: the two intervals share a merged chunk
\* and are in different returned chunks
SplitBoundaries ==
    {k \in 1..(Len(speech_segments) - 1) :
        Together(FirstPass, k) /\ ~Together(chunks, k)}

\* C3: for a non-empty ascending non-overlapping interval list and any
\* parameters, the returned chunks have start < end, are ascending and
\* pairwise non-overlapping, every input interval lies inside exactly one
\* chunk, and every chunk starts at the start of an input interval and ends
\* at the end of an input interval.
C3_ChunksCoverIntervals ==
    (Consolidated /\ speech_segments # <<>>) =>
        /\ chunks # <<>>
        /\ \A c \in 1..Len(chunks) : chunks[c].start < chunks[c].end
        /\ \A c \in 1..(Len(chunks) - 1) : chunks[c].end <= chunks[c + 1].start
        /\ \A k \in 1..Len(speech_segments) :
               Cardinality({c \in 1..Len(chunks) :
                               Inside(speech_segments[k], chunks[c])}) = 1
        /\ \A c \in 1..Len(chunks) :
               /\ \E k \in 1..Len(speech_segments) :
                      speech_segments[k].start = chunks[c].start
               /\ \E k \in 1..Len(speech_segments) :
                      speech_segments[k].end = chunks[c].end

\* C3 witness: three intervals, of which two were merged and one chunk was
\* split or kept apart
C3_Witness ==
    /\ Consolidated
    /\ Len(speech_segments) = 3
    /\ Len(chunks) = 2
    /\ SplitBoundaries # {}

\* the input intervals that share samples with the chunk
BuiltFrom(chunk) ==
    {k \in 1..Len(speech_segments) :
        speech_segments[k].start < chunk.end /\ chunk.start < speech_segments[k].end}

\* C7: no returned chunk is shorter than an interval it is built from, and
\* every boundary placed by the split pass sits at a gap that is at least
\* split_gap (compared in seconds: gap / sr >= split_gap).
C7_SplitOnlyAtSplitGap ==
    Consolidated =>
        /\ \A c \in 1..Len(chunks) :
               /\ BuiltFrom(chunks[c]) # {}
               /\ \A k \in BuiltFrom(chunks[c]) :
                      chunks[c].end - chunks[c].start >=
                          speech_segments[k].end - speech_segments[k].start
        /\ \A k \in SplitBoundaries : GapAfter(k) * SecondTicks >= split_gap * SR

NoSplitNeeded ==
    \A c \in 1..Len(FirstPass) :
        FirstPass[c].end - FirstPass[c].start <= ToSamples(max_chunk, SR)

\* C8: when max_chunk is large enough that no merged chunk is split,
\* applying merge_vad_segments to its own output with the same merge_gap
\* returns that output unchanged.
C8_MergeIdempotent ==
    (pc = "consolidated" /\ speech_segments # <<>> /\ NoSplitNeeded) =>
        rechunks = chunks

\* C8 witness: a second application on an output of two chunks, one of them
\* the merge of two intervals
C8_Witness ==
    /\ pc = "consolidated"
    /\ Len(speech_segments) = 3
    /\ NoSplitNeeded
    /\ Len(chunks) = 2
    /\ rechunks = chunks

TooLong(chunk) == (chunk.end - chunk.start) * SecondTicks > max_chunk * SR

\* C10 as stated: a returned chunk longer than max_chunk contains no pair
\* of consecutive original intervals separated by a gap >= split_gap.
C10_OverlongHasNoPause ==
    Consolidated =>
        \A c \in 1..Len(chunks) :
            TooLong(chunks[c]) =>
                \A k \in 1..(Len(speech_segments) - 1) :
                    (Inside(speech_segments[k], chunks[c])
                     /\ Inside(speech_segments[k + 1], chunks[c]))
                        => GapAfter(k) * SecondTicks < split_gap * SR

\* C10 amended: inside a returned chunk, a gap of at least
\* int(split_gap * sr) samples is followed only by an interval that ends
\* within int(max_chunk * sr) samples of the chunk's start; a pause met
\* before the limit is reached stays inside the chunk.
C10_PauseOnlyBeforeLimit ==
    Consolidated =>
        \A c \in 1..Len(chunks) :
            \A k \in 1..(Len(speech_segments) - 1) :
                (/\ Inside(speech_segments[k], chunks[c])
                 /\ Inside(speech_segments[k + 1], chunks[c])
                 /\ GapAfter(k) >= ToSamples(split_gap, SR))
                    => speech_segments[k + 1].end - chunks[c].start
                           <= ToSamples(max_chunk, SR)

\* C10 witness: a returned chunk longer than max_chunk that holds a pause
\* of at least split_gap between two of its intervals
C10_Witness ==
    /\ Consolidated
    /\ \E c \in 1..Len(chunks) :
           /\ TooLong(chunks[c])
           /\ \E k \in 1..(Len(speech_segments) - 1) :
                  /\ Inside(speech_segments[k], chunks[c])
                  /\ Inside(speech_segments[k + 1], chunks[c])
                  /\ GapAfter(k) * SecondTicks >= split_gap * SR
                  /\ split_gap > 0

-----------------------------------------------------------------------------
(* SpecBuild: build_segments_from_words applied to drawn word lists.  The   *)
(* times drawn are multiples of TimeStep milliseconds; the thresholds are  *)
(* the program's defaults, and 0 and 3 * TimeStep.                         *)

MaxWords == 3
MaxTime == 4

\* "a", " b\n" and a tab followed by a no-break space
WordTexts == {<<97>>, <<32, 98, 10>>, <<9, 160>>}
ConfA == 9877
TimeStep == GAP_THRESHOLD
GapThresholds == {GAP_THRESHOLD, 0}
MaxDurations == {MAX_SEGMENT_DURATION, 3 * TimeStep}

\* a word as transcribe_with_vad builds it (with confidence) or as a direct
\* caller passes it (text, start, end only)
Word(t, s, e, hasConf) ==
    IF hasConf THEN [text |-> t, start |-> s, end |-> e, confidence |-> ConfA]
    ELSE [text |-> t, start |-> s, end |-> e]

\* chronological word lists: start <= end <= next start, drawn in steps of
\* TimeStep from step number from on
RECURSIVE WordLists(_, _, _)
WordLists(from, n, hasConf) ==
    {<<>>} \cup
    (IF n = 0 THEN {}
     ELSE UNION { UNION { UNION { { <<Word(t, s * TimeStep, e * TimeStep, hasConf)>> \o rest :
                                      rest \in WordLists(e, n - 1, hasConf) } :
                                  t \in WordTexts } :
                          e \in s..MaxTime } :
                  s \in from..MaxTime })

InitBuild ==
    /\ pc = "build"
    /\ all_words \in WordLists(0, MaxWords, TRUE) \cup WordLists(0, MaxWords, FALSE)
    /\ gap_threshold \in GapThresholds
    /\ max_duration \in MaxDurations
    /\ segments = <<>>
    /\ speech_segments = <<>>
    /\ merge_gap = 0
    /\ max_chunk = 0
    /\ split_gap = 0
    /\ chunks = <<>>
    /\ rechunks = <<>>
    /\ RunIdle

BuildSegments ==
    /\ pc = "build"
    /\ segments' = build_segments_from_words(all_words, gap_threshold, max_duration)
    /\ pc' = "built"
    /\ UNCHANGED <<speech_segments, merge_gap, max_chunk, split_gap, chunks,
                   rechunks, i, files, gpu_dirty, unlink_errors, engine_out,
                   all_words, gap_threshold, max_duration, output>>

NextBuild == BuildSegments

SpecBuild == InitBuild /\ [][NextBuild]_vars

-----------------------------------------------------------------------------
(* Properties of the segment builder (SpecBuild) *)

RECURSIVE ConcatWords(_)
ConcatWords(segs) ==
    IF segs = <<>> THEN <<>> ELSE Head(segs).words \o ConcatWords(Tail(segs))

\* the text holds a character that is not white space
HasText(w) == \E k \in 1..Len(w.text) : w.text[k] \notin Whitespace

\* C2 as stated: the 'words' lists of the segments, concatenated in order,
\* are the input words, each exactly once and in the original order.
C2_SegmentsPartitionWords ==
    pc = "built" =>
        ConcatWords(segments) = [k \in 1..Len(all_words) |-> WhisperXWord(all_words[k])]

\* C2 amended: the concatenation holds, once each and in the original order,
\* exactly the input words whose text is not empty or whitespace-only;
\* whitespace-only tokens are in no segment's 'words'.
C2_SegmentsPartitionTextWords ==
    pc = "built" =>
        LET texted == SelectSeq(all_words, HasText)
        IN  ConcatWords(segments) = [k \in 1..Len(texted) |-> WhisperXWord(texted[k])]

\* C2 witness: three words in two segments, one of the words white space
\* only (a tab and a no-break space), one with white space around its text
C2_Witness ==
    /\ pc = "built"
    /\ Len(all_words) = 3
    /\ Len(segments) = 2
    /\ \E k \in 1..3 : ~HasText(all_words[k]) /\ all_words[k].text # <<>>
    /\ \E k \in 1..3 : HasText(all_words[k]) /\ IsSpace(all_words[k].text[1])
    /\ Len(ConcatWords(segments)) = 2

WordGap(k) == all_words[k + 1].start - all_words[k].end

\* OpenFirst(k): index of the first word of the segment that is open when
\* the pair (k, k+1) is examined; BreakAfter(k): the rule of the claim
RECURSIVE OpenFirst(_), BreakAfter(_)
OpenFirst(k) ==
    IF k = 1 THEN 1 ELSE IF BreakAfter(k - 1) THEN k ELSE OpenFirst(k - 1)
BreakAfter(k) ==
    \/ WordGap(k) > gap_threshold
    \/ all_words[k].end - all_words[OpenFirst(k)].start > max_duration

Breaks == {k \in 1..(Len(all_words) - 1) : BreakAfter(k)}

\* last word of the group that starts at word f
GroupLast(f) ==
    LET later == {b \in Breaks : b >= f}
    IN  IF later = {} THEN Len(all_words)
        ELSE CHOOSE b \in later : \A c \in later : b <= c

GroupFirsts == {1} \cup {b + 1 : b \in Breaks}

\* C9: a boundary lies between two consecutive words iff the gap between
\* them is strictly above gap_threshold or the open segment's duration up
\* to the earlier word is strictly above max_duration (a gap or duration
\* equal to its threshold does not break); the last open segment is
\* emitted.  Stated on the result: there is one segment per
\* group of words delimited by these boundaries, in order, spanning from
\* its first word's start to its last word's end and carrying its text.
C9_BreakRule ==
    (pc = "built" /\ all_words # <<>>) =>
        /\ Len(segments) = Cardinality(Breaks) + 1
        /\ \A f \in GroupFirsts :
               LET j == 1 + Cardinality({b \in Breaks : b < f})
                   l == GroupLast(f)
               IN  /\ segments[j].start = all_words[f].start
                   /\ segments[j].end = all_words[l].end
                   /\ segments[j].text =
                          Join([k \in 1..(l - f + 1) |-> Strip(all_words[f + k - 1].text)])

-----------------------------------------------------------------------------
(* Spec: one run of main / transcribe_with_vad                             *)

MaxPoint == 2
MaxSegs == 2
MaxChunkWords == 2

\* lines 24-26, in 1/SecondTicks s
DEFAULT_VAD_MERGE_GAP == 10 * SecondTicks
DEFAULT_VAD_MAX_CHUNK == 300 * SecondTicks
DEFAULT_VAD_SPLIT_GAP == SecondTicks \div 2

\* line 329: values of --language
Languages == {"en", "fr"}

\* spacing of the drawn interval bounds: a millisecond
SampleStep == SamplesPerMs

RECURSIVE Scaled(_)
Scaled(segs) ==
    IF segs = <<>> THEN <<>>
    ELSE <<Interval(Head(segs).start * SampleStep, Head(segs).end * SampleStep)>>
         \o Scaled(Tail(segs))

\* what get_speech_segments may return
VadResults == {Scaled(l) : l \in IntervalLists(0, MaxPoint, MaxSegs)}

\* length of a timed token
TokenLength == SampleStep \div 3

\* chunk-local token starts the engine may report: half a millisecond,
\* inside every chunk and, added to a chunk offset, on a tie of round(x, 3)
\* that the floats decide; and one beyond the end of the chunks of up to two
\* steps
LocalTimes == {SampleStep \div 2, 2 * SampleStep + TokenLength}

\* a confidence the engine may report: 0.98766
ConfRaw == ConfOne * ConfStep - 1234

\* word timestamps of a hypothesis: timed tokens " hi", and a token that
\* carries only its text, a tab (start and end default to 0, confidence to
\* 1.0)
EngineTokens ==
    {[word |-> <<32, 104, 105>>, start |-> t, end |-> t + TokenLength,
      confidence |-> ConfRaw] : t \in LocalTimes}
    \cup {[word |-> <<9>>]}

\* token lists in chronological order of (defaulted) start
RECURSIVE EngineResults(_, _)
EngineResults(from, n) ==
    {<<>>} \cup
    (IF n = 0 THEN {}
     ELSE UNION { { <<w>> \o rest :
                      rest \in EngineResults(Get(w, "start", 0), n - 1) } :
                  w \in {x \in EngineTokens : Get(x, "start", 0) >= from} })

\* line 268: chunk_offset = start_sample / sr, in sample periods of SR
ChunkOffset(chunk) == chunk.start

GlobalTimeNoOffset(t, chunk_offset, up) ==
    RoundTo(t, 0, SamplesPerMs, ExactSamples, up)

\* lines 296-297: round(t + chunk_offset, 3), in milliseconds
GlobalTime(t, chunk_offset, up) ==
    RoundTo(t, chunk_offset, SamplesPerMs, ExactSamples, up)

\* line 298: round(confidence, 4), in units of 0.0001
RoundConfidence(c, up) == RoundTo(c, 0, ConfStep, ExactConf, up)

\* lines 294-299
ToWord(w, chunk_offset, up) ==
    [text |-> Get(w, "word", <<>>),
     start |-> GlobalTime(Get(w, "start", 0), chunk_offset, up),
     end |-> GlobalTime(Get(w, "end", 0), chunk_offset, up),
     confidence |-> RoundConfidence(Get(w, "confidence", ConfOne * ConfStep), up)]

\* the roundings of a chunk's tokens that sit on a tie decided by the floats
FloatTies(toks, chunk_offset) ==
    LET times == {Get(toks[k], "start", 0) : k \in 1..Len(toks)}
                 \cup {Get(toks[k], "end", 0) : k \in 1..Len(toks)}
        confs == {Get(toks[k], "confidence", ConfOne * ConfStep) : k \in 1..Len(toks)}
    IN  {<<t, SamplesPerMs>> : t \in {x \in times :
              FloatTie(x, chunk_offset, SamplesPerMs, ExactSamples)}}
        \cup {<<c, ConfStep>> : c \in {x \in confs :
              FloatTie(x, 0, ConfStep, ExactConf)}}

Init ==
    /\ pc = "start"
    /\ speech_segments \in VadResults
    /\ merge_gap \in {0, DEFAULT_VAD_MERGE_GAP}
    /\ max_chunk = DEFAULT_VAD_MAX_CHUNK
    /\ split_gap = DEFAULT_VAD_SPLIT_GAP
    /\ chunks = <<>>
    /\ rechunks = <<>>
    /\ all_words = <<>>
    /\ gap_threshold = GAP_THRESHOLD
    /\ max_duration = MAX_SEGMENT_DURATION
    /\ segments = <<>>
    /\ RunIdle

\* lines 250-262: VAD result merged into chunks; no chunk, no speech
DetectAndMerge ==
    /\ pc = "start"
    /\ chunks' = merge_vad_segments(speech_segments, SR, merge_gap, max_chunk, split_gap)
    /\ IF chunks' = <<>>
       THEN pc' = "write" /\ i' = i
       ELSE pc' = "stage" /\ i' = 1
    /\ UNCHANGED <<speech_segments, merge_gap, max_chunk, split_gap, rechunks,
                   files, gpu_dirty, unlink_errors, engine_out, all_words,
                   gap_threshold, max_duration, segments, output>>

\* lines 276-278: sf.write of _chunk_i.wav
Stage ==
    /\ pc = "stage"
    /\ files' = files \cup {i}
    /\ pc' = "transcribe"
    /\ UNCHANGED <<speech_segments, merge_gap, max_chunk, split_gap, chunks,
                   rechunks, i, gpu_dirty, unlink_errors, engine_out, all_words,
                   gap_threshold, max_duration, segments, output>>

\* lines 281-301: model.transcribe returns; words appended with the offset
TranscribeOk ==
    /\ pc = "transcribe"
    /\ \E toks \in EngineResults(0, MaxChunkWords) :
         \E up \in [FloatTies(toks, ChunkOffset(chunks[i])) -> BOOLEAN] :
           /\ engine_out' = Append(engine_out, toks)
           /\ all_words' = all_words \o
                  [k \in 1..Len(toks) |->
                      ToWord(toks[k], ChunkOffset(chunks[i]), up)]
    /\ gpu_dirty' = TRUE
    /\ pc' = "unlink"
    /\ UNCHANGED <<speech_segments, merge_gap, max_chunk, split_gap, chunks,
                   rechunks, i, files, unlink_errors, gap_threshold,
                   max_duration, segments, output>>

TranscribeFailContinue ==
    /\ pc = "transcribe"
    /\ gpu_dirty' = TRUE
    /\ pc' = "unlink"
    /\ UNCHANGED <<speech_segments, merge_gap, max_chunk, split_gap, chunks,
                   rechunks, i, files, unlink_errors, engine_out, all_words,
                   gap_threshold, max_duration, segments, output>>

\* line 281: model.transcribe raises; nothing catches it in
\* transcribe_with_vad or main, the process ends
TranscribeFail ==
    /\ pc = "transcribe"
    /\ gpu_dirty' = TRUE
    /\ pc' = "crashed"
    /\ UNCHANGED <<speech_segments, merge_gap, max_chunk, split_gap, chunks,
                   rechunks, i, files, unlink_errors, engine_out, all_words,
                   gap_threshold, max_duration, segments, output>>

UnlinkSkipped ==
    /\ pc = "unlink"
    /\ pc' = "empty_cache"
    /\ UNCHANGED <<speech_segments, merge_gap, max_chunk, split_gap, chunks,
                   rechunks, i, files, gpu_dirty, unlink_errors, engine_out,
                   all_words, gap_threshold, max_duration, segments, output>>

\* lines 303-307: unlink removes the file, or raises and leaves it (the
\* exception is suppressed)
Unlink ==
    /\ pc = "unlink"
    /\ \E removed \in BOOLEAN :
           IF removed
           THEN files' = files \ {i} /\ unlink_errors' = unlink_errors
           ELSE files' = files /\ unlink_errors' = unlink_errors \cup {i}
    /\ pc' = "empty_cache"
    /\ UNCHANGED <<speech_segments, merge_gap, max_chunk, split_gap, chunks,
                   rechunks, i, gpu_dirty, engine_out, all_words,
                   gap_threshold, max_duration, segments, output>>

\* lines 309-313: empty_cache and gc.collect, then the next chunk or the
\* end of the loop
ClearGpu ==
    /\ pc = "empty_cache"
    /\ gpu_dirty' = FALSE
    /\ IF i < Len(chunks)
       THEN i' = i + 1 /\ pc' = "stage"
       ELSE i' = i /\ pc' = "segment"
    /\ UNCHANGED <<speech_segments, merge_gap, max_chunk, split_gap, chunks,
                   rechunks, files, unlink_errors, engine_out, all_words,
                   gap_threshold, max_duration, segments, output>>

\* lines 315-320
SegmentAllWords ==
    /\ pc = "segment"
    /\ segments' = build_segments_from_words(all_words, GAP_THRESHOLD,
                                              MAX_SEGMENT_DURATION)
    /\ pc' = "write"
    /\ UNCHANGED <<speech_segments, merge_gap, max_chunk, split_gap, chunks,
                   rechunks, i, files, gpu_dirty, unlink_errors, engine_out,
                   all_words, gap_threshold, max_duration, output>>

\* lines 359-366: main sets the language given on the command line and
\* writes the JSON document
WriteOutput ==
    /\ pc = "write"
    /\ \E language \in Languages :
           output' = [written |-> TRUE, segments |-> segments, language |-> language]
    /\ pc' = "done"
    /\ UNCHANGED <<speech_segments, merge_gap, max_chunk, split_gap, chunks,
                   rechunks, i, files, gpu_dirty, unlink_errors, engine_out,
                   all_words, gap_threshold, max_duration, segments>>

Next ==
    \/ DetectAndMerge
    \/ Stage
    \/ TranscribeOk
    \/ TranscribeFail
    \/ Unlink
    \/ ClearGpu
    \/ SegmentAllWords
    \/ WriteOutput

Spec == Init /\ [][Next]_vars

-----------------------------------------------------------------------------
(* Properties of the run (Spec) *)

LoopExited == pc \in {"segment", "write", "done"}

\* C1: on every exit path of a chunk's processing, a raising transcription
\* call included, the chunk's staged file is gone and the device-memory
\* cleanup has run.
C1_ReleasedOnEveryExit ==
    /\ pc = "crashed" => (i \notin files /\ ~gpu_dirty)
    /\ \A k \in 1..Len(chunks) : (k < i \/ LoopExited) => k \notin files

\* C4 as stated: chunk i+1 is staged only once chunk i's file and device
\* memory are released; at most one staged artifact exists at any point.
C4_OneStagedArtifact ==
    /\ Cardinality(files) <= 1
    /\ pc = "stage" => (files = {} /\ ~gpu_dirty)

\* C4 amended: chunk i+1 is staged only after the unlink of chunk i's file
\* has been attempted and the device-memory cleanup has run; the artifacts
\* that exist besides the current chunk's are exactly those whose unlink
\* raised.
C4_StagedAfterCleanupAttempt ==
    /\ files \ unlink_errors \subseteq {i}
    /\ files \subseteq 1..i
    /\ pc = "stage" => (files \subseteq unlink_errors /\ ~gpu_dirty)

\* C4 witness: chunk 2 staged and in transcription after chunk 1's unlink
\* raised and the device memory was emptied
C4_Witness ==
    /\ pc = "transcribe"
    /\ i = 2
    /\ files = {1, 2}
    /\ unlink_errors = {1}
    /\ ~gpu_dirty

SortedByStart(words) ==
    \A k \in 1..(Len(words) - 1) : words[k].start <= words[k + 1].start

\* C5 as stated: with chunks ascending and each chunk's tokens in
\* chronological order, the aggregate word list is non-decreasing in start.
C5_AllWordsSorted == SortedByStart(all_words)

\* chunk-local starts are not negative and at least one sample period
\* before the chunk's end
TokensInsideChunk(c) ==
    \A k \in 1..Len(engine_out[c]) :
        LET t == Get(engine_out[c][k], "start", 0)
        IN  0 <= t /\ t + 1 <= chunks[c].end - chunks[c].start

\* C5 amended: the aggregate word list is non-decreasing in start provided,
\* in addition, every token starts inside its chunk: its chunk-local start
\* is not negative and lies at least one sample period before the chunk's
\* end.
C5_AllWordsSortedWhenInsideChunk ==
    (\A c \in 1..Len(engine_out) : TokensInsideChunk(c)) => SortedByStart(all_words)

\* C5 witness: two chunks answered with two tokens each, all inside their
\* chunk, the second chunk's first local start lower than the first chunk's
\* last; the four words ascend, the last one later than the first
C5_Witness ==
    /\ Len(engine_out) = 2
    /\ TokensInsideChunk(1)
    /\ TokensInsideChunk(2)
    /\ Len(engine_out[1]) = 2
    /\ Len(engine_out[2]) = 2
    /\ Get(engine_out[2][1], "start", 0) < Get(engine_out[1][2], "start", 0)
    /\ SortedByStart(all_words)
    /\ all_words[1].start < all_words[4].start

AllTranscribed == Len(engine_out) = Len(chunks)

\* C6: a raising transcription call ends the run: no step follows it (no
\* later chunk, no segment building, no output); the builder has run and
\* the document is written only when every chunk was transcribed, which
\* includes the run with no chunk at all.
C6_FailureAborts ==
    /\ [](pc = "crashed" => (~output.written /\ ~AllTranscribed /\ segments = <<>>))
    /\ [](pc \in {"write", "done"} => AllTranscribed)
    /\ [](output.written => (pc = "done" /\ AllTranscribed))
    /\ [][pc # "crashed"]_vars

\* C6 witness: a run that kept the first chunk's words and stopped in the
\* second chunk, with no document written
C6_Witness ==
    /\ pc = "crashed"
    /\ i = 2
    /\ all_words # <<>>
    /\ ~output.written

====
